---- MODULE Spec2Model ----
(***************************************************************************)
(* State-machine model of hcipy's Fourier-domain operators:                *)
(*   FourierFilter, FourierShift, FourierShear, FourierRotation            *)
(*     (hcipy/fourier/fourier_operations.py)                               *)
(*   AngularSpectrumPropagator (hcipy/propagation/angular_spectrum.py)     *)
(* and of the surface cache of DeformableMirror                            *)
(*     (hcipy/optics/deformable_mirror.py).                                *)
(*                                                                         *)
(* Numbers.  Complex samples are Gaussian integers <<re, im>>.  Grids have *)
(* 1, 2 or 4 samples per axis, so every root of unity a DFT needs is a     *)
(* power of i and every transform is computed exactly.                     *)
(* Arrays.  An array is [shape, data]: shape is numpy's shape tuple and    *)
(* data maps each 0-based index tuple to a sample.  Axis a of numpy        *)
(* (0-based) is position a+1 of a tuple.                                   *)
(***************************************************************************)
EXTENDS Integers, Sequences, FiniteSets, TLC

VARIABLES
    target,     \* the operator object the client holds
    use_mkl,    \* _use_mkl: whether mkl_fft was importable
    filter,     \* the FourierFilter object
    shifter,    \* the FourierShift object
    origin,     \* the field a run of FourierShift forward calls started from
    applied,    \* the shifts of that run's calls, in order
    shearer,    \* the FourierShear object
    rotation,   \* the FourierRotation object
    propagator, \* the AngularSpectrumPropagator object and its instance cache
    mirror,     \* the DeformableMirror object
    arg,        \* the argument of the last call, as it is after the call
    argBefore,  \* the argument of the last call, as it was when passed
    result,     \* what the last call returned: [kind, value, buffer]
    call        \* the last call: [op, ...]

vars == <<target, use_mkl, filter, shifter, origin, applied, shearer, rotation, propagator,
          mirror, arg, argBefore, result, call>>

\* The variables of each operator; a call on one operator leaves the others alone.
filterVars == <<filter>>

shiftVars == <<shifter, origin, applied>>

shearVars == <<shearer, rotation>>

propagatorVars == <<propagator>>

\* An attribute that is None is the empty tuple; a set one is <<value>>.
None == <<>>

Some(x) == <<x>>

(***************************************************************************)
(* Complex arithmetic                                                      *)
(***************************************************************************)
CZero == <<0, 0>>

CAdd(a, b) == <<a[1] + b[1], a[2] + b[2]>>

CMul(a, b) == <<a[1] * b[1] - a[2] * b[2], a[1] * b[2] + a[2] * b[1]>>

CConj(a) == <<a[1], -a[2]>>

\* i^q for an integer q (q counts quarter turns).
IPow(q) ==
    CASE q % 4 = 0 -> <<1, 0>>
      [] q % 4 = 1 -> <<0, 1>>
      [] q % 4 = 2 -> <<-1, 0>>
      [] q % 4 = 3 -> <<0, -1>>

\* exp(2 pi i e / n) for n in {1, 2, 4}.
RootOfUnity(n, e) == IPow(e * (4 \div n))

\* z / n, used where n divides both parts (the normalisation of an inverse DFT).
CDivInt(z, n) == <<z[1] \div n, z[2] \div n>>

\* astype(dtype): a cast to a real dtype keeps the real part only.
IsComplexDtype(dtype) == dtype \in {"complex128", "complex64"}

CastSample(z, dtype) == IF IsComplexDtype(dtype) THEN z ELSE <<z[1], 0>>

(***************************************************************************)
(* Arrays                                                                  *)
(***************************************************************************)
RECURSIVE Indices(_)
Indices(shape) ==
    IF shape = <<>> THEN {<<>>}
    ELSE {<<i>> \o rest : i \in 0..(Head(shape) - 1), rest \in Indices(Tail(shape))}

RECURSIVE Product(_)
Product(s) == IF s = <<>> THEN 1 ELSE Head(s) * Product(Tail(s))

Reverse(s) == [i \in 1..Len(s) |-> s[Len(s) + 1 - i]]

\* s[:-n]
ButLastN(s, n) == SubSeq(s, 1, Len(s) - n)

Zeros(shape) == [shape |-> shape, data |-> [idx \in Indices(shape) |-> CZero]]

AsType(arr, dtype) ==
    [shape |-> arr.shape,
     data |-> [idx \in Indices(arr.shape) |-> CastSample(arr.data[idx], dtype)]]

\* A python axis number (negative counts from the end) as a tuple position.
AxisPos(axis, ndim) == (axis % ndim) + 1

\* One-dimensional DFT along tuple position pos; sign = -1 forward, +1 inverse
\* (the inverse also divides by the length, as numpy's default norm does).
DftAxis(arr, pos, sign) ==
    LET n == arr.shape[pos]
        term(idx, m) == CMul(arr.data[[idx EXCEPT ![pos] = m]],
                             RootOfUnity(n, sign * idx[pos] * m))
        sum(idx) == LET S[k \in 0..n] ==
                            IF k = 0 THEN CZero ELSE CAdd(S[k - 1], term(idx, k - 1))
                    IN  S[n]
    IN  [shape |-> arr.shape,
         data |-> [idx \in Indices(arr.shape) |->
                      IF sign = 1 THEN CDivInt(sum(idx), n) ELSE sum(idx)]]

\* numpy.fft.fftn / ifftn over a tuple of python axes.
RECURSIVE DftAxes(_, _, _)
DftAxes(arr, axes, sign) ==
    IF axes = <<>> THEN arr
    ELSE DftAxes(DftAxis(arr, AxisPos(Head(axes), Len(arr.shape)), sign), Tail(axes), sign)

fftn(arr, axes) == DftAxes(arr, axes, -1)

ifftn(arr, axes) == DftAxes(arr, axes, 1)

\* tuple(range(-ndim, 0))
SpatialAxes(ndim) == [i \in 1..ndim |-> i - ndim - 1]

\* numpy.fft.ifftshift over the last ndim axes: out[m] = in[(m + n div 2) mod n].
IfftShiftIndex(idx, shape, ndim) ==
    [p \in 1..Len(idx) |->
        IF p > Len(idx) - ndim THEN (idx[p] + shape[p] \div 2) % shape[p] ELSE idx[p]]

ifftshift(arr, ndim) ==
    [shape |-> arr.shape,
     data |-> [idx \in Indices(arr.shape) |->
                  arr.data[IfftShiftIndex(idx, arr.shape, ndim)]]]

\* The value of b at the index that numpy broadcasting pairs with idx
\* (b is aligned on the trailing axes; axes of length 1 are repeated).
BroadcastAt(b, idx) ==
    LET off == Len(idx) - Len(b.shape)
    IN  b.data[[p \in 1..Len(b.shape) |-> IF b.shape[p] = 1 THEN 0 ELSE idx[p + off]]]

\* Whether an array of shape vs can be assigned into a target of shape ts.
Broadcastable(vs, ts) ==
    /\ Len(vs) <= Len(ts)
    /\ \A p \in 1..Len(vs) : vs[p] = 1 \/ vs[p] = ts[p + Len(ts) - Len(vs)]

MulBroadcast(f, b) ==
    [shape |-> f.shape,
     data |-> [idx \in Indices(f.shape) |-> CMul(f.data[idx], BroadcastAt(b, idx))]]

ConjArray(arr) ==
    [shape |-> arr.shape, data |-> [idx \in Indices(arr.shape) |-> CConj(arr.data[idx])]]

\* Row-major (C order) position of an index tuple, and its inverse.
RECURSIVE Ravel(_, _)
Ravel(idx, shape) ==
    IF idx = <<>> THEN 0
    ELSE Ravel(ButLastN(idx, 1), ButLastN(shape, 1)) * shape[Len(shape)] + idx[Len(idx)]

RECURSIVE Unravel(_, _)
Unravel(k, shape) ==
    IF shape = <<>> THEN <<>>
    ELSE Append(Unravel(k \div shape[Len(shape)], ButLastN(shape, 1)), k % shape[Len(shape)])

\* numpy reshape: same samples in the same C order under a new shape.
Reshape(arr, shape) ==
    [shape |-> shape,
     data |-> [idx \in Indices(shape) |-> arr.data[Unravel(Ravel(idx, shape), arr.shape)]]]

(***************************************************************************)
(* Grids and Fields (hcipy.field, used through its interface)              *)
(*   grid  = [dims, zero, is_regular, coords]; dims[1] is the x axis,      *)
(*           delta is 1 on every axis                                      *)
(*   field = [dtype, grid, data]; data is the flat array of shape          *)
(*           tensor_shape \o <<grid.size>>                                 *)
(***************************************************************************)
GridNdim(grid) == Len(grid.dims)

\* grid.shape = dims[::-1]
GridShape(grid) == Reverse(grid.dims)

GridSize(grid) == Product(grid.dims)

TensorShape(field) == ButLastN(field.data.shape, 1)

TensorOrder(field) == Len(TensorShape(field))

\* field.shaped
Shaped(field) == Reshape(field.data, TensorShape(field) \o GridShape(field.grid))

\* Field(arr.reshape(arr.shape[:-ndim] + (-1,)), grid)
FlatField(arr, grid, dtype) ==
    [dtype |-> dtype, grid |-> grid,
     data |-> Reshape(arr, ButLastN(arr.shape, GridNdim(grid)) \o <<GridSize(grid)>>)]

(***************************************************************************)
(* FourierFilter                                                           *)
(*   ff = [input_grid, internal_shape, cutout, shape_in, transfer_function,*)
(*         _transfer_function, internal_array]                             *)
(*   transfer_function   = [callable, profile]: a Field, or a generator of *)
(*                         it, over the internal grid                      *)
(*   _transfer_function  = None or Some([dtype, arr])                      *)
(*   internal_array      = None or Some([dtype, arr])                      *)
(***************************************************************************)
\* FastFourierTransform(input_grid, q).output_grid.shape: q-fold padding.
FftInternalShape(grid, q) == [p \in 1..GridNdim(grid) |-> GridShape(grid)[p] * q]

\* FastFourierTransform(input_grid, q).cutout_input: None without padding, else
\* one <<start, stop>> slice per axis, centred in the internal array.
FftCutoutInput(grid, q) ==
    IF FftInternalShape(grid, q) = GridShape(grid) THEN None
    ELSE [p \in 1..GridNdim(grid) |->
            LET start == FftInternalShape(grid, q)[p] \div 2 - GridShape(grid)[p] \div 2
            IN  <<start, start + GridShape(grid)[p]>>]

MatrixProfiles == {"M"}

\* The sample of a transfer function at C-order position k of its shaped array.
TfSample(profile, k) ==
    CASE profile = "A" -> <<1 + k, k - 1>>
      [] profile = "B" -> <<2 - k, 1>>
      [] profile = "M" -> <<k % 3, 1 - (k % 2)>>

\* tf.shaped of the Field that transfer_function is, or that it generates on
\* internal_grid: tensor shape (2, 2) for a matrix field, () for a scalar one.
TransferFunctionShaped(tf, internal_shape) ==
    LET shape == (IF tf.profile \in MatrixProfiles THEN <<2, 2>> ELSE <<>>) \o internal_shape
    IN  [shape |-> shape,
         data |-> [idx \in Indices(shape) |-> TfSample(tf.profile, Ravel(idx, shape))]]

FourierFilterInit(input_grid, transfer_function, q) ==
    [input_grid |-> input_grid,
     internal_shape |-> FftInternalShape(input_grid, q),
     cutout |-> FftCutoutInput(input_grid, q),
     shape_in |-> GridShape(input_grid),
     transfer_function |-> transfer_function,
     _transfer_function |-> None,
     internal_array |-> None]

\* A test that keeps whatever transfer function is cached.
RecomputeTransferFunctionOnce(ff, field) == ff._transfer_function = None

RecomputeTransferFunction(ff, field) ==
    \/ ff._transfer_function = None
    \/ ff._transfer_function[1].dtype # field.dtype

\* Whether _compute_functions calls self.transfer_function(self.internal_grid).
GeneratorInvoked(ff, field) ==
    RecomputeTransferFunction(ff, field) /\ ff.transfer_function.callable

RecomputeInternalArray(ff, field) ==
    \/ ff.internal_array = None
    \/ Len(ff.internal_array[1].arr.shape) # GridNdim(field.grid) + TensorOrder(field)
    \/ ff.internal_array[1].dtype # field.dtype
    \/ \A p \in 1..TensorOrder(field) :
          ff.internal_array[1].arr.shape[p] = TensorShape(field)[p]

ComputeFunctions(ff, field) ==
    LET tf == IF RecomputeTransferFunction(ff, field)
              THEN Some([dtype |-> field.dtype,
                         arr |-> AsType(ifftshift(TransferFunctionShaped(ff.transfer_function,
                                                                         ff.internal_shape),
                                                  GridNdim(ff.input_grid)),
                                        field.dtype)])
              ELSE ff._transfer_function
        buf == IF RecomputeInternalArray(ff, field)
               THEN Some([dtype |-> field.dtype,
                          arr |-> Zeros(TensorShape(field) \o ff.internal_shape)])
               ELSE ff.internal_array
    IN  [ff EXCEPT !._transfer_function = tf, !.internal_array = buf]

\* Whether index tuple idx lies in c = (slice(None),) * tensor_order + cutout.
InCutout(idx, cutout) ==
    LET off == Len(idx) - Len(cutout)
    IN  \A p \in 1..Len(cutout) : cutout[p][1] <= idx[p + off] /\ idx[p + off] < cutout[p][2]

\* idx moved by the cutout's start (sign = -1: into the cutout's own indexing).
CutoutShift(idx, cutout, sign) ==
    LET off == Len(idx) - Len(cutout)
    IN  [p \in 1..Len(idx) |-> IF p > off THEN idx[p] + sign * cutout[p - off][1] ELSE idx[p]]

\* The shape of f[c].
CutoutShape(shape, cutout) ==
    LET off == Len(shape) - Len(cutout)
    IN  [p \in 1..Len(shape) |->
            IF p > off THEN cutout[p - off][2] - cutout[p - off][1] ELSE shape[p]]

\* f[:] = 0; f[c] = value (value broadcast to the shape of f[c]).
PadInto(f, cutout, value) ==
    [shape |-> f.shape,
     data |-> [idx \in Indices(f.shape) |->
                  IF InCutout(idx, cutout)
                  THEN BroadcastAt(value, CutoutShift(idx, cutout, -1))
                  ELSE CZero]]

\* f[c]
Crop(f, cutout) ==
    LET shape == CutoutShape(f.shape, cutout)
    IN  [shape |-> shape,
         data |-> [idx \in Indices(shape) |-> f.data[CutoutShift(idx, cutout, 1)]]]

\* Whether f[c].reshape(tensor_shape + (-1,)) is a view of f.  f is C-contiguous
\* with the given shape, and f[c] keeps f's strides.  numpy ignores the axes of
\* f[c] of length 1 and merges the remaining grid axes into one without copying
\* exactly when each of them has the stride of the next one times the next one's
\* length; the tensor axes are not merged.
CropIsContiguous(shape, cutout) ==
    LET off == Len(shape) - Len(cutout)
        cropped == CutoutShape(shape, cutout)
        stride(p) == Product(SubSeq(shape, p + 1, Len(shape)))
        kept == {p \in (off + 1)..Len(shape) : cropped[p] # 1}
    IN  \A a \in kept : \A b \in kept :
            (a < b /\ \A j \in (a + 1)..(b - 1) : j \notin kept)
                => stride(a) = cropped[b] * stride(b)

\* field_conjugate_transpose of a matrix field shaped (d, d) \o grid shape.
FieldConjugateTranspose(tf) ==
    [shape |-> tf.shape,
     data |-> [idx \in Indices(tf.shape) |->
                  CConj(tf.data[<<idx[2], idx[1]>> \o SubSeq(idx, 3, Len(idx))])]]

\* field_dot(tf, f): at every sample the matrix tf times the vector f.
FieldDot(tf, f) ==
    LET d == tf.shape[2]
        rest(idx) == SubSeq(idx, 2, Len(idx))
        row(idx) == LET S[c \in 0..d] ==
                            IF c = 0 THEN CZero
                            ELSE CAdd(S[c - 1], CMul(tf.data[<<idx[1], c - 1>> \o rest(idx)],
                                                     f.data[<<c - 1>> \o rest(idx)]))
                    IN  S[d]
        shape == <<tf.shape[1]>> \o SubSeq(f.shape, 2, Len(f.shape))
    IN  [shape |-> shape, data |-> [idx \in Indices(shape) |-> row(idx)]]

IsMatrixTransferFunction(ff) ==
    Len(ff._transfer_function[1].arr.shape) - Len(ff.internal_shape) = 2

\* The multiplication of the transformed array f by the cached transfer function.
ApplyTransferFunction(ff, f, adjoint) ==
    LET tf == ff._transfer_function[1].arr
        ndim == Len(ff.internal_shape)
        size == Product(ff.internal_shape)
        s1 == ButLastN(f.shape, ndim) \o <<size>>
        s2 == ButLastN(tf.shape, ndim) \o <<size>>
        tfm == IF adjoint THEN FieldConjugateTranspose(Reshape(tf, s2)) ELSE Reshape(tf, s2)
        dot == FieldDot(tfm, Reshape(f, s1))
    IN  IF IsMatrixTransferFunction(ff)
        THEN Reshape(dot, ButLastN(dot.shape, 1) \o ff.internal_shape)
        ELSE MulBroadcast(f, IF adjoint THEN ConjArray(tf) ELSE tf)

\* overwrite_x of the forward transform whenever mkl_fft is in use.
FftOverwriteXAlways(ff, field, mkl) == mkl

\* overwrite_x of the forward transform: only under mkl_fft, and only when f is
\* the scratch buffer of a grid of more than one dimension.
FftOverwriteX(ff, field, mkl) == mkl /\ ff.cutout # None /\ GridNdim(field.grid) > 1

\* overwrite_x of the inverse transform.
IfftOverwriteX(mkl) == mkl

\* _operation keeps its arrays in three buffers: arg (the input field's), scratch
\* (internal_array) and tmp (arrays the call creates).  A stage of the call is
\* st = [heap, at]: the contents of the three buffers and the buffer that holds f.
\* A transform with overwrite_x writes its output over its input.

\* Whether f[c] = field.shaped can broadcast.
FilterFits(ff, field) ==
    \/ ff.cutout = None
    \/ Broadcastable(Shaped(field).shape,
                     CutoutShape(ff.internal_array[1].arr.shape, ff.cutout))

\* f = field.shaped, or f = internal_array; f[:] = 0; f[c] = field.shaped
FilterPad(ff, field) ==
    [heap |-> [arg |-> Shaped(field),
               scratch |-> IF ff.cutout = None THEN ff.internal_array[1].arr
                           ELSE IF FilterFits(ff, field)
                                THEN PadInto(ff.internal_array[1].arr, ff.cutout, Shaped(field))
                                ELSE Zeros(ff.internal_array[1].arr.shape),
               tmp |-> Zeros(<<>>)],
     at |-> IF ff.cutout = None THEN "arg" ELSE "scratch"]

\* f = fftn(f, axes, **kwargs)
FilterFft(ff, field, mkl, st) ==
    LET to == IF FftOverwriteX(ff, field, mkl) /\ IsComplexDtype(field.dtype)
              THEN st.at ELSE "tmp"
    IN  [heap |-> [st.heap EXCEPT ![to] = fftn(st.heap[st.at],
                                               SpatialAxes(GridNdim(ff.input_grid)))],
         at |-> to]

\* f = field_dot(tf, f).shaped, or f *= tf
FilterMultiply(ff, adjoint, st) ==
    LET to == IF IsMatrixTransferFunction(ff) THEN "tmp" ELSE st.at
    IN  [heap |-> [st.heap EXCEPT ![to] = ApplyTransferFunction(ff, st.heap[st.at], adjoint)],
         at |-> to]

\* f = ifftn(f, axes, **kwargs)
FilterIfft(ff, mkl, st) ==
    LET to == IF IfftOverwriteX(mkl) THEN st.at ELSE "tmp"
    IN  [heap |-> [st.heap EXCEPT ![to] = ifftn(st.heap[st.at],
                                                SpatialAxes(GridNdim(ff.input_grid)))],
         at |-> to]

\* res = f.reshape(s) or f[c].reshape(s); return Field(res, input_grid).  reshape
\* returns a view of f[c] when its grid axes can be merged in place and a copy
\* otherwise.
FilterReturn(ff, field, st) ==
    [ff |-> [ff EXCEPT !.internal_array[1].arr = st.heap.scratch],
     arg |-> [field EXCEPT !.data = Reshape(st.heap.arg, field.data.shape)],
     result |-> [kind |-> "Field",
                 value |-> Some(FlatField(IF ff.cutout = None THEN st.heap[st.at]
                                          ELSE Crop(st.heap[st.at], ff.cutout),
                                          ff.input_grid, "complex128")),
                 buffer |-> IF st.at = "tmp" THEN "fresh"
                            ELSE IF ff.cutout = None THEN st.at
                            ELSE IF CropIsContiguous(st.heap[st.at].shape, ff.cutout)
                                 THEN st.at ELSE "fresh"]]

\* f[c] = field.shaped raises ValueError: the buffer was zeroed, nothing is returned.
FilterRaise(ff, field, st) ==
    [ff |-> [ff EXCEPT !.internal_array[1].arr = st.heap.scratch],
     arg |-> field,
     result |-> [kind |-> "ValueError", value |-> None, buffer |-> "none"]]

\* _operation after _compute_functions.
FilterPipeline(ff, field, adjoint, mkl) ==
    IF FilterFits(ff, field)
    THEN FilterReturn(ff, field,
             FilterIfft(ff, mkl,
                 FilterMultiply(ff, adjoint,
                     FilterFft(ff, field, mkl, FilterPad(ff, field)))))
    ELSE FilterRaise(ff, field, FilterPad(ff, field))

\* _operation: the operator and the input field after the call, and the result.
FilterOperation(ff0, field, adjoint, mkl) ==
    FilterPipeline(ComputeFunctions(ff0, field), field, adjoint, mkl)

(***************************************************************************)
(* FourierShift                                                            *)
(*   fs = [input_grid, _shift, _ft_axes, _shift_filter]                    *)
(*   shift[d] is the shift along grid axis d (d = 1 is x), in grid steps   *)
(***************************************************************************)
NegVec(v) == [d \in 1..Len(v) |-> -v[d]]

AddVec(v, w) == [d \in 1..Len(v) |-> v[d] + w[d]]

\* mask = shift != 0
ShiftMask(shift) == [d \in 1..Len(shift) |-> shift[d] # 0]

\* np.flatnonzero(shift), as 1-based grid axes in ascending order.
FlatNonZero(shift) == SelectSeq([d \in 1..Len(shift) |-> d], LAMBDA d : shift[d] # 0)

\* tuple(np.flatnonzero(shift) - 1): python axis numbers.
FtAxes(shift) == [r \in 1..Len(FlatNonZero(shift)) |-> (FlatNonZero(shift)[r] - 1) - 1]

\* make_fft_grid(input_grid, q=1, fov=1) reduced to the masked axes: the number of
\* samples of each kept axis.  Sample p of an axis of n samples is the frequency
\* 2 pi (p - n div 2) / n.
ReducedFftDims(grid, shift) ==
    [r \in 1..Len(FlatNonZero(shift)) |-> grid.dims[FlatNonZero(shift)[r]]]

\* _numexpr_grid_shift(shift, fft_grid).reshape(fft_grid.shape): the phase ramp
\* exp(1j * sum_i shift[i] * coords[i]) over the axes i of fft_grid, which pairs
\* the i-th entry of shift with the i-th axis of the grid it is given.
GridShift(shift, dims) ==
    LET shape == Reverse(dims)
        n == Len(dims)
        turns(idx) == LET S[r \in 0..n] ==
                              IF r = 0 THEN 0
                              ELSE S[r - 1] + shift[r] * (idx[n + 1 - r] - dims[r] \div 2)
                                                       * (4 \div dims[r])
                      IN  S[n]
    IN  [shape |-> shape, data |-> [idx \in Indices(shape) |-> IPow(turns(idx))]]

\* shift_filter[broadcasting_slice]: an axis of length 1 for every unmasked grid axis.
BroadcastingSlice(arr, mask) ==
    LET n == Len(mask)
        kept == SelectSeq([p \in 1..n |-> p], LAMBDA p : mask[n + 1 - p])
        full == [p \in 1..n |-> IF mask[n + 1 - p]
                                THEN arr.shape[Cardinality({q \in 1..p : mask[n + 1 - q]})]
                                ELSE 1]
    IN  [shape |-> full,
         data |-> [idx \in Indices(full) |-> arr.data[[r \in 1..Len(kept) |-> idx[kept[r]]]]]]

\* A shift setter whose early exit leaves the stored filter as it was.
ShiftSetterKeepsFilter(fs, shift) ==
    LET mask == ShiftMask(shift)
        dims == ReducedFftDims(fs.input_grid, shift)
        ramp == GridShift(NegVec(shift), dims)
    IN  [fs EXCEPT !._shift = shift,
                   !._ft_axes = FtAxes(shift),
                   !._shift_filter =
                       IF FtAxes(shift) = <<>> THEN fs._shift_filter
                       ELSE Some(BroadcastingSlice(ifftshift(ramp, Len(dims)), mask))]

\* The shift setter.
ShiftSetter(fs, shift) ==
    LET mask == ShiftMask(shift)
        dims == ReducedFftDims(fs.input_grid, shift)
        ramp == GridShift(NegVec(shift), dims)
    IN  [fs EXCEPT !._shift = shift,
                   !._ft_axes = FtAxes(shift),
                   !._shift_filter =
                       IF FtAxes(shift) = <<>> THEN None
                       ELSE Some(BroadcastingSlice(ifftshift(ramp, Len(dims)), mask))]

FourierShiftInit(input_grid, shift) ==
    ShiftSetter([input_grid |-> input_grid, _shift |-> shift, _ft_axes |-> <<>>,
                 _shift_filter |-> None], shift)

\* overwrite_x of the forward transform of FourierShift and FourierShear: the
\* call passes no kwargs.
PlainFftOverwriteX(mkl) == FALSE

\* _operation: the input field after the call, the result, and the tuple positions
\* the call transformed.  A forward transform with overwrite_x would leave every
\* later array of the call in the input's buffer.
ShiftOperation(fs, field, adjoint, mkl) ==
    LET f1 == fftn(Shaped(field), fs._ft_axes)
        flt == fs._shift_filter[1]
        f2 == MulBroadcast(f1, IF adjoint THEN ConjArray(flt) ELSE flt)
        f3 == ifftn(f2, fs._ft_axes)
        inplace == PlainFftOverwriteX(mkl) /\ IsComplexDtype(field.dtype)
    IN  IF fs._shift_filter = None
        THEN [arg |-> field,
              result |-> [kind |-> "Field",
                          value |-> Some([dtype |-> "complex128", grid |-> field.grid,
                                          data |-> AsType(field.data, "complex128")]),
                          buffer |-> "fresh"],
              transformed |-> {}]
        ELSE [arg |-> IF inplace THEN [field EXCEPT !.data = Reshape(f3, field.data.shape)]
                      ELSE field,
              result |-> [kind |-> "Field",
                          value |-> Some(FlatField(f3, field.grid, "complex128")),
                          buffer |-> IF inplace THEN "arg" ELSE "fresh"],
              transformed |-> {AxisPos(fs._ft_axes[r], Len(Shaped(field).shape)) :
                                  r \in 1..Len(fs._ft_axes)}]

(***************************************************************************)
(* FourierShear                                                            *)
(*   sh = [_input_grid, _shear_dim, _shear, _filter]                       *)
(*   The grid has unit spacing, so sample j of grid axis d lies at         *)
(*   zero[d] + j, and the shear is a whole number of grid steps per row.   *)
(***************************************************************************)
\* np.fft.ifftshift(fft_grid.separated_coords[d])[i], in units of 2 pi / n.
FftFrequency(i, n) == ((i + n \div 2) % n) - n \div 2

\* input_grid.separated_coords[d][j]
GridCoord(grid, d, j) == grid.zero[d] + j

\* A test of the number of dimensions alone.
NotRegular2DIgnoresRegularity(input_grid) == GridNdim(input_grid) # 2

\* The constructors of FourierShear and FourierRotation raise ValueError.
NotRegular2D(input_grid) == ~input_grid.is_regular \/ GridNdim(input_grid) # 2

\* fourier_dim
FourierDim(shear_dim) == IF shear_dim = 0 THEN 1 ELSE 0

\* np.exp(-1j * shear * np.outer(y, fx)), transposed when shear_dim is 1: the
\* filter indexed like field.shaped, (iy, ix).
ShearFilter(input_grid, shear, shear_dim) ==
    LET shape == GridShape(input_grid)
        along(idx) == IF shear_dim = 0 THEN idx[2] ELSE idx[1]
        across(idx) == IF shear_dim = 0 THEN idx[1] ELSE idx[2]
        n == input_grid.dims[shear_dim + 1]
    IN  [shape |-> shape,
         data |-> [idx \in Indices(shape) |->
                      IPow(-(shear * GridCoord(input_grid, FourierDim(shear_dim) + 1, across(idx))
                                   * FftFrequency(along(idx), n) * (4 \div n)))]]

\* The shear setter.
ShearSetter(sh, shear) ==
    [sh EXCEPT !._filter = ShearFilter(sh._input_grid, shear, sh._shear_dim),
               !._shear = shear]

\* __init__: None when it raises ValueError.
FourierShearInit(input_grid, shear, shear_dim) ==
    IF NotRegular2D(input_grid) THEN None
    ELSE ShearSetter([_input_grid |-> input_grid, _shear_dim |-> shear_dim, _shear |-> 0,
                      _filter |-> Zeros(<<>>)], shear)

ShearOperation(sh, field, adjoint, mkl) ==
    LET axes == <<-sh._shear_dim - 1>>
        f1 == fftn(Shaped(field), axes)
        f2 == MulBroadcast(f1, IF adjoint THEN ConjArray(sh._filter) ELSE sh._filter)
        f3 == ifftn(f2, axes)
        inplace == PlainFftOverwriteX(mkl) /\ IsComplexDtype(field.dtype)
    IN  [arg |-> IF inplace THEN [field EXCEPT !.data = Reshape(f3, field.data.shape)]
                 ELSE field,
         result |-> [kind |-> "Field",
                     value |-> Some(FlatField(f3, field.grid, "complex128")),
                     buffer |-> IF inplace THEN "arg" ELSE "fresh"]]

(***************************************************************************)
(* FourierRotation                                                         *)
(*   rot = [_input_grid, _shear_x, _shear_y, _angle]                       *)
(*   The angle is a whole number of quarter turns in -1..1, for which the  *)
(*   two shears are whole numbers.                                         *)
(***************************************************************************)
\* np.tan(angle / 2)
TanHalfAngle(angle) == CASE angle = -1 -> -1 [] angle = 0 -> 0 [] angle = 1 -> 1

\* np.sin(angle)
SinAngle(angle) == CASE angle = -1 -> -1 [] angle = 0 -> 0 [] angle = 1 -> 1

\* An angle setter that takes the sine with the wrong sign.
AngleSetterPlusSin(rot, angle) ==
    [rot EXCEPT !._shear_x = ShearSetter(@, TanHalfAngle(angle)),
                !._shear_y = ShearSetter(@, SinAngle(angle)),
                !._angle = angle]

\* The angle setter.
AngleSetter(rot, angle) ==
    [rot EXCEPT !._shear_x = ShearSetter(@, TanHalfAngle(angle)),
                !._shear_y = ShearSetter(@, -SinAngle(angle)),
                !._angle = angle]

\* __init__: None when it raises ValueError.
FourierRotationInit(input_grid, angle) ==
    IF NotRegular2D(input_grid) THEN None
    ELSE AngleSetter([_input_grid |-> input_grid,
                      _shear_x |-> FourierShearInit(input_grid, 0, 0),
                      _shear_y |-> FourierShearInit(input_grid, 0, 1),
                      _angle |-> 0], angle)

\* _operation returns f1, f2, f3.
RotationOperation(rot, field, adjoint, mkl) ==
    LET c1 == ShearOperation(rot._shear_x, field, adjoint, mkl)
        c2 == ShearOperation(rot._shear_y, c1.result.value[1], adjoint, mkl)
        c3 == ShearOperation(rot._shear_x, c2.result.value[1], adjoint, mkl)
    IN  [arg |-> c1.arg,
         result |-> [kind |-> "tuple",
                     value |-> <<c1.result.value[1], c2.result.value[1], c3.result.value[1]>>,
                     buffer |-> c1.result.buffer]]

(***************************************************************************)
(* AngularSpectrumPropagator                                               *)
(*   asp = [_distance, _num_oversampling, _refractive_index, cache]        *)
(*   cache is the instance cache of AgnosticOpticalElement: a set of       *)
(*   entries [key, fourier_filter, stale], at most one per key; stale is   *)
(*   history: a parameter was reassigned after the entry's filter was      *)
(*   built.  Lengths are whole numbers of grid steps.  The samples of a    *)
(*   transfer function are not computed: an evaluated transfer function is *)
(*   the record of the values its evaluation read.                         *)
(***************************************************************************)
\* np.max(input_grid.dims * input_grid.delta)
LMax(input_grid) ==
    CHOOSE m \in {input_grid.dims[p] * input_grid.delta[p] : p \in 1..GridNdim(input_grid)} :
        \A p \in 1..GridNdim(input_grid) : input_grid.dims[p] * input_grid.delta[p] <= m

\* A criterion with the comparison turned round.
UsesImpulseResponseWhenCoarse(asp, input_grid, wavelength) ==
    \E p \in 1..GridNdim(input_grid) :
        input_grid.delta[p] * LMax(input_grid) > wavelength * asp._distance

\* np.any(input_grid.delta < wavelength * self.distance / L_max), L_max > 0.
UsesImpulseResponse(asp, input_grid, wavelength) ==
    \E p \in 1..GridNdim(input_grid) :
        input_grid.delta[p] * LMax(input_grid) < wavelength * asp._distance

\* A make_instance that hands out the filter of an instance it built before,
\* whatever that instance's key.
MakeInstanceShared(asp, input_grid, wavelength) ==
    IF ~input_grid.is_regular \/ ~input_grid.cartesian
    THEN None
    ELSE IF asp.cache # {}
         THEN Some([fourier_filter |-> (CHOOSE e \in asp.cache : TRUE).fourier_filter])
         ELSE Some([fourier_filter |->
                       FourierFilterInit(input_grid,
                           [callable |-> TRUE,
                            profile |-> IF UsesImpulseResponse(asp, input_grid, wavelength)
                                        THEN "impulse_response" ELSE "native",
                            k |-> [wavelength |-> wavelength,
                                   refractive_index |-> asp._refractive_index]],
                           2)])

\* A make_instance that does not look at the grid.
MakeInstanceUnchecked(asp, input_grid, wavelength) ==
    Some([fourier_filter |->
             FourierFilterInit(input_grid,
                 [callable |-> TRUE,
                  profile |-> IF UsesImpulseResponse(asp, input_grid, wavelength)
                              THEN "impulse_response" ELSE "native",
                  k |-> [wavelength |-> wavelength,
                         refractive_index |-> asp._refractive_index]],
                 2)])

\* make_instance: the instance data, or None when it raises ValueError.  The
\* transfer function closure holds k and the branch taken; it reads distance and
\* num_oversampling when it is called.
MakeInstance(asp, input_grid, wavelength) ==
    IF ~input_grid.is_regular \/ ~input_grid.cartesian
    THEN None
    ELSE Some([fourier_filter |->
                  FourierFilterInit(input_grid,
                      [callable |-> TRUE,
                       profile |-> IF UsesImpulseResponse(asp, input_grid, wavelength)
                                   THEN "impulse_response" ELSE "native",
                       k |-> [wavelength |-> wavelength,
                              refractive_index |-> asp._refractive_index]],
                      2)])

\* clear_cache of AgnosticOpticalElement.
ClearCache(asp) == [asp EXCEPT !.cache = {}]

\* A distance setter that leaves the cache as it is.
DistanceSetterKeepsCache(asp, distance) == [asp EXCEPT !._distance = distance]

DistanceSetter(asp, distance) == ClearCache([asp EXCEPT !._distance = distance])

NumOversamplingSetter(asp, num_oversampling) ==
    ClearCache([asp EXCEPT !._num_oversampling = num_oversampling])

RefractiveIndexSetter(asp, refractive_index) ==
    ClearCache([asp EXCEPT !._refractive_index = refractive_index])

\* __init__: input_grid is not used.
AngularSpectrumPropagatorInit(input_grid, distance, num_oversampling, refractive_index) ==
    [_distance |-> distance, _num_oversampling |-> num_oversampling,
     _refractive_index |-> refractive_index, cache |-> {}]

CacheKey(wavefront) ==
    [input_grid |-> wavefront.electric_field.grid, wavelength |-> wavefront.wavelength]

CacheKeys(asp) == {e.key : e \in asp.cache}

\* The instance the agnostic forward/backward wrappers hand to the method: the
\* cached one for the key, else the one make_instance builds (None when it raises).
GetInstance(asp, key) ==
    IF key \in CacheKeys(asp)
    THEN Some(CHOOSE e \in asp.cache : e.key = key)
    ELSE IF MakeInstance(asp, key.input_grid, key.wavelength) = None THEN None
         ELSE Some([key |-> key,
                    fourier_filter |->
                        MakeInstance(asp, key.input_grid, key.wavelength)[1].fourier_filter,
                    stale |-> FALSE])

\* The filter's _compute_functions when the transfer function is the closure of
\* make_instance: the closure is called if nothing is cached for the field's
\* dtype, and internal_array is allocated as for any filter.
PropagatorComputeFunctions(asp, ff, field) ==
    LET tf == IF RecomputeTransferFunction(ff, field)
              THEN Some([dtype |-> field.dtype,
                         arr |-> [profile |-> ff.transfer_function.profile,
                                  k |-> ff.transfer_function.k,
                                  distance |-> asp._distance,
                                  num_oversampling |-> asp._num_oversampling]])
              ELSE ff._transfer_function
        buf == IF RecomputeInternalArray(ff, field)
               THEN Some([dtype |-> field.dtype,
                          arr |-> Zeros(TensorShape(field) \o ff.internal_shape)])
               ELSE ff.internal_array
    IN  [ff EXCEPT !._transfer_function = tf, !.internal_array = buf]

\* forward / backward: the propagator after the call, the result, and what the
\* call did with the cache.  The samples of the propagated field are kept as the
\* triple (input samples, transfer function, adjoint).  The filter of the
\* instance pads the field into its internal_array (q = 2); where the transforms
\* run in place the array ends up holding the whole inverse transform, and the
\* result is the reshape of its cutout.
PropagatorOperation(asp, wavefront, adjoint, mkl) ==
    LET key == CacheKey(wavefront)
        inst == GetInstance(asp, key)
        field == wavefront.electric_field
        ff0 == PropagatorComputeFunctions(asp, inst[1].fourier_filter, field)
        samples == [filtered |-> field.data,
                    transfer_function |-> ff0._transfer_function[1].arr,
                    adjoint |-> adjoint]
        inplace == /\ FftOverwriteX(ff0, field, mkl) /\ IsComplexDtype(field.dtype)
                   /\ IfftOverwriteX(mkl)
        scratch == IF inplace
                   THEN [shape |-> ff0.internal_array[1].arr.shape,
                         data |-> [uncropped |-> samples]]
                   ELSE FilterPad(ff0, field).heap.scratch
        ff == [ff0 EXCEPT !.internal_array[1].arr = scratch]
        filtered == [dtype |-> "complex128", grid |-> ff.input_grid, data |-> samples]
    IN  IF inst = None
        THEN [asp |-> asp, built |-> FALSE, used |-> None,
              result |-> [kind |-> "ValueError", value |-> None, buffer |-> "none"]]
        ELSE [asp |-> [asp EXCEPT !.cache = {e \in @ : e.key # key}
                                            \cup {[inst[1] EXCEPT !.fourier_filter = ff]}],
              built |-> key \notin CacheKeys(asp),
              used |-> Some([inst[1] EXCEPT !.fourier_filter = ff]),
              result |-> [kind |-> "Wavefront",
                          value |-> Some([electric_field |-> filtered,
                                          wavelength |-> wavefront.wavelength,
                                          input_stokes_vector |->
                                              wavefront.input_stokes_vector]),
                          buffer |-> IF inplace /\ CropIsContiguous(scratch.shape, ff.cutout)
                                     THEN "scratch" ELSE "fresh"]]

(***************************************************************************)
(* DeformableMirror                                                        *)
(*   dm = [_influence_functions, _actuators, _actuators_for_cached_surface,*)
(*         _surface]                                                       *)
(*   _influence_functions is the sequence of the modes of a ModeBasis,     *)
(*   each mode the sequence of its samples on the grid; actuators and      *)
(*   surfaces are sequences of whole numbers.  A phase is a pair <<n, w>>: *)
(*   n * pi / w radians.                                                   *)
(***************************************************************************)
\* ModeBasis.linear_combination: the sum over the modes of coefficient * mode.
LinearCombination(influence_functions, coefficients) ==
    LET n == Len(influence_functions)
        S[m \in 0..n] ==
            IF m = 0 THEN [x \in 1..Len(influence_functions[1]) |-> 0]
            ELSE [x \in 1..Len(influence_functions[1]) |->
                     S[m - 1][x] + coefficients[m] * influence_functions[m][x]]
    IN  S[n]

\* The influence_functions setter.
InfluenceFunctionsSetter(dm, influence_functions) ==
    [dm EXCEPT !._influence_functions = influence_functions,
               !._actuators_for_cached_surface = None]

\* __init__
DeformableMirrorInit(influence_functions) ==
    InfluenceFunctionsSetter(
        [_influence_functions |-> <<>>,
         _actuators |-> [m \in 1..Len(influence_functions) |-> 0],
         _actuators_for_cached_surface |-> None,
         _surface |-> [x \in 1..Len(influence_functions[1]) |-> 0]],
        influence_functions)

\* The surface property: the mirror after the read and what the read gives.  The
\* cache holds a copy of the actuators.  np.all(actuators == copy) broadcasts: an
\* array of one value is compared with every value of the other array.  Two
\* arrays of different lengths, both above one, do not compare equal; the read
\* then ends in ValueError, as linear_combination raises ValueError when the
\* number of actuators is not the number of modes.
Surface(dm) ==
    IF /\ dm._actuators_for_cached_surface # None
       /\ LET a == dm._actuators
              c == dm._actuators_for_cached_surface[1]
          IN  IF Len(a) = Len(c) THEN \A m \in 1..Len(a) : a[m] = c[m]
              ELSE IF Len(a) = 1 THEN \A m \in 1..Len(c) : a[1] = c[m]
              ELSE IF Len(c) = 1 THEN \A m \in 1..Len(a) : a[m] = c[1]
              ELSE FALSE
    THEN [dm |-> dm, hit |-> TRUE,
          result |-> [kind |-> "Field", value |-> Some(dm._surface), buffer |-> "_surface"]]
    ELSE IF Len(dm._actuators) # Len(dm._influence_functions)
    THEN [dm |-> dm, hit |-> FALSE,
          result |-> [kind |-> "ValueError", value |-> None, buffer |-> "none"]]
    ELSE [dm |-> [dm EXCEPT !._surface = LinearCombination(dm._influence_functions,
                                                           dm._actuators),
                            !._actuators_for_cached_surface = Some(dm._actuators)],
          hit |-> FALSE,
          result |-> [kind |-> "Field",
                      value |-> Some(LinearCombination(dm._influence_functions,
                                                       dm._actuators)),
                      buffer |-> "_surface"]]

(***************************************************************************)
(* Inputs                                                                  *)
(***************************************************************************)
RegularGrid(dims) ==
    [dims |-> dims, is_regular |-> TRUE, cartesian |-> TRUE,
     zero |-> [p \in 1..Len(dims) |-> -(dims[p] \div 2)]]

\* Sample k of input pattern pat.
PatternSample(pat, k) == <<(((k + 1) * pat) % 5) - 2, (((k + pat) * (k + 2)) % 3) - 1>>

\* A field on grid whose samples are multiples of scale.
FieldOf(grid, tshape, dtype, pat, scale) ==
    LET shape == tshape \o <<GridSize(grid)>>
    IN  [dtype |-> dtype, grid |-> grid,
         data |-> [shape |-> shape,
                   data |-> [idx \in Indices(shape) |->
                                CastSample(<<scale * PatternSample(pat, Ravel(idx, shape))[1],
                                             scale * PatternSample(pat, Ravel(idx, shape))[2]>>,
                                           dtype)]]]

NoCall == [op |-> "none"]

NoField == FieldOf(RegularGrid(<<1>>), <<>>, "float64", 1, 0)

NoResult == [kind |-> "none", value |-> None, buffer |-> "none"]

(***************************************************************************)
(* FourierFilter: the client's calls                                       *)
(***************************************************************************)
\* The filters a client builds, each with the FFT module it runs under: one
\* without padding and one whose 2-D grid is padded to (2, 4).
FilterConfigs ==
    {[dims |-> <<2>>, q |-> 1, mkl |-> TRUE],
     [dims |-> <<2, 1>>, q |-> 2, mkl |-> TRUE],
     [dims |-> <<2, 1>>, q |-> 2, mkl |-> FALSE]}

TransferFunctions ==
    {[callable |-> TRUE, profile |-> "A"], [callable |-> FALSE, profile |-> "B"],
     [callable |-> FALSE, profile |-> "M"]}

\* The tensor shapes and dtypes of the fields passed to a filter.
FilterFieldTypes(tf) ==
    IF tf.profile \in MatrixProfiles
    THEN {[tshape |-> <<2>>, dtype |-> "complex128"], [tshape |-> <<2>>, dtype |-> "float64"]}
    ELSE {[tshape |-> <<>>, dtype |-> "complex128"], [tshape |-> <<>>, dtype |-> "float64"],
          [tshape |-> <<1>>, dtype |-> "complex128"], [tshape |-> <<2>>, dtype |-> "complex128"]}

\* The fields a client passes: on the filter's grid, samples multiples of the
\* size of the internal grid (so that the inverse transform divides exactly), of
\* the types that go with the assigned transfer function.  field_dot is given
\* vector fields of the matrix's dimension only: when the call applies a matrix
\* transfer function (the cached one if it is kept, else the assigned one), the
\* field has tensor shape (2,).
FilterFields(f) ==
    LET matrix(fld) == IF RecomputeTransferFunction(f, fld)
                       THEN f.transfer_function.profile \in MatrixProfiles
                       ELSE IsMatrixTransferFunction(f)
    IN  {fld \in {FieldOf(f.input_grid, t.tshape, t.dtype, pat, Product(f.internal_shape)) :
                     t \in FilterFieldTypes(f.transfer_function), pat \in {1, 2}} :
            matrix(fld) => TensorShape(fld) = <<2>>}

\* Whether internal_array exists with the field's dtype and tensor shape.
BufferMatches(f, field) ==
    /\ f.internal_array # None
    /\ f.internal_array[1].dtype = field.dtype
    /\ f.internal_array[1].arr.shape = TensorShape(field) \o f.internal_shape

FilterCall(field, adjoint) ==
    /\ target = "FourierFilter"
    /\ \E r \in {FilterOperation(filter, field, adjoint, use_mkl)} :
           /\ filter' = r.ff
           /\ arg' = r.arg
           /\ result' = r.result
    /\ argBefore' = field
    /\ call' = [op |-> IF adjoint THEN "backward" ELSE "forward",
                transfer_function |-> filter.transfer_function,
                matched |-> BufferMatches(filter, field),
                reallocated |-> RecomputeInternalArray(filter, field),
                invoked |-> GeneratorInvoked(filter, field),
                previous |-> IF call.op = "none" THEN None ELSE Some(argBefore.dtype),
                generated_before |->
                    IF call.op = "none" THEN {}
                    ELSE call.generated_before
                             \cup (IF call.invoked THEN {argBefore.dtype} ELSE {})]
    /\ UNCHANGED <<target, use_mkl, mirror, shiftVars, shearVars, propagatorVars>>

FilterForward ==
    /\ target = "FourierFilter"
    /\ \E field \in FilterFields(filter) : FilterCall(field, FALSE)

FilterBackward ==
    /\ target = "FourierFilter"
    /\ \E field \in FilterFields(filter) : FilterCall(field, TRUE)

\* filter.transfer_function = tf: a plain attribute, so any transfer function
\* is accepted (scalar or matrix, whatever is cached) and nothing else is touched.
FilterSetTransferFunction ==
    /\ target = "FourierFilter"
    /\ \E tf \in TransferFunctions \ {filter.transfer_function} :
          filter' = [filter EXCEPT !.transfer_function = tf]
    /\ UNCHANGED <<target, use_mkl, mirror, shiftVars, shearVars, propagatorVars,
                   arg, argBefore, result, call>>

FilterInit ==
    /\ target = "FourierFilter"
    /\ \E c \in FilterConfigs, tf \in TransferFunctions :
          /\ use_mkl = c.mkl
          /\ filter = FourierFilterInit(RegularGrid(c.dims), tf, c.q)
    /\ shifter = None /\ origin = NoField /\ applied = <<>>
    /\ shearer = None /\ rotation = None /\ propagator = None
    /\ mirror = None
    /\ arg = NoField
    /\ argBefore = NoField
    /\ result = NoResult
    /\ call = NoCall

FilterNext == FilterForward \/ FilterBackward \/ FilterSetTransferFunction

SpecFilter == FilterInit /\ [][FilterNext]_vars

(***************************************************************************)
(* FourierShift: the client's calls                                        *)
(***************************************************************************)
\* The operators a client builds: the grid, the tensor shape of the fields it
\* passes and the shift vectors it assigns.
ShiftConfigs ==
    {[dims |-> <<4>>, tshape |-> <<>>, shifts |-> {<<0>>, <<1>>, <<-1>>}],
     [dims |-> <<4, 2>>, tshape |-> <<>>,
      shifts |-> {<<0, 0>>, <<1, 0>>, <<0, 1>>, <<1, 1>>, <<-1, 0>>}],
     [dims |-> <<2, 2>>, tshape |-> <<2>>,
      shifts |-> {<<0, 0>>, <<1, 0>>, <<0, 1>>, <<1, 1>>}],
     [dims |-> <<2, 2, 2>>, tshape |-> <<>>,
      shifts |-> {<<0, 0, 0>>, <<1, 0, 0>>, <<0, 1, 0>>, <<0, 0, 1>>, <<1, 1, 0>>}]}

ShiftConfigOf(grid) == CHOOSE c \in ShiftConfigs : c.dims = grid.dims

ShiftFields(grid) ==
    {FieldOf(grid, ShiftConfigOf(grid).tshape, "complex128", 1, 1),
     FieldOf(grid, ShiftConfigOf(grid).tshape, "float64", 2, 1)}

\* shifter.shift = s
ShiftAssign ==
    /\ target = "FourierShift"
    /\ \E s \in ShiftConfigOf(shifter.input_grid).shifts : shifter' = ShiftSetter(shifter, s)
    /\ UNCHANGED <<target, use_mkl, mirror, filterVars, shearVars, propagatorVars, origin, applied,
                   arg, argBefore, result, call>>

ShiftCall(field, adjoint) ==
    /\ target = "FourierShift"
    /\ \E r \in {ShiftOperation(shifter, field, adjoint, use_mkl)} :
           /\ arg' = r.arg
           /\ result' = r.result
           /\ call' = [op |-> IF adjoint THEN "backward" ELSE "forward",
                       shift |-> shifter._shift,
                       ndim |-> Len(Shaped(field).shape),
                       transformed |-> r.transformed]
    /\ argBefore' = field
    /\ UNCHANGED <<target, use_mkl, mirror, filterVars, shearVars, propagatorVars, shifter>>

\* forward on a field of the client's.
ShiftForward ==
    /\ target = "FourierShift"
    /\ \E field \in ShiftFields(shifter.input_grid) :
          /\ ShiftCall(field, FALSE)
          /\ origin' = field
          /\ applied' = <<shifter._shift>>

\* forward on the field the previous forward call returned.
ShiftForwardAgain ==
    /\ target = "FourierShift"
    /\ Len(applied) = 1
    /\ result.kind = "Field"
    /\ ShiftCall(result.value[1], FALSE)
    /\ origin' = origin
    /\ applied' = Append(applied, shifter._shift)

ShiftBackward ==
    /\ target = "FourierShift"
    /\ \E field \in ShiftFields(shifter.input_grid) :
          /\ ShiftCall(field, TRUE)
          /\ origin' = field
          /\ applied' = <<>>

ShiftInit ==
    /\ target = "FourierShift"
    /\ use_mkl \in BOOLEAN
    /\ \E c \in ShiftConfigs : \E s \in c.shifts :
          shifter = FourierShiftInit(RegularGrid(c.dims), s)
    /\ origin = NoField /\ applied = <<>>
    /\ filter = None /\ shearer = None /\ rotation = None /\ propagator = None
    /\ mirror = None
    /\ arg = NoField
    /\ argBefore = NoField
    /\ result = NoResult
    /\ call = NoCall

ShiftNext == ShiftAssign \/ ShiftForward \/ ShiftForwardAgain \/ ShiftBackward

SpecShift == ShiftInit /\ [][ShiftNext]_vars

(***************************************************************************)
(* FourierShear and FourierRotation: the client's calls                    *)
(***************************************************************************)
\* The grids passed to the constructors: two regular 2-D grids, one 2-D grid that
\* is not regular, and regular grids of one and of three dimensions.
ShearGrids ==
    {RegularGrid(<<2, 2>>), RegularGrid(<<4, 2>>),
     [RegularGrid(<<2, 2>>) EXCEPT !.is_regular = FALSE],
     RegularGrid(<<4>>), RegularGrid(<<2, 2, 2>>)}

\* Shears in grid steps per row, and the shear_dim of the constructor.
Shears == {-1, 0, 1}

\* Rotation angles in quarter turns.
Angles == {-1, 0, 1}

ShearFields(grid) ==
    {FieldOf(grid, <<>>, "complex128", 1, 1), FieldOf(grid, <<>>, "float64", 2, 1)}

\* shearer.shear = s
ShearAssign ==
    /\ target = "FourierShear"
    /\ shearer # None
    /\ \E s \in Shears : shearer' = ShearSetter(shearer, s)
    /\ UNCHANGED <<target, use_mkl, mirror, filterVars, shiftVars, rotation, propagatorVars,
                   arg, argBefore, result, call>>

ShearCall(field, adjoint) ==
    /\ target = "FourierShear"
    /\ \E r \in {ShearOperation(shearer, field, adjoint, use_mkl)} :
           /\ arg' = r.arg
           /\ result' = r.result
    /\ argBefore' = field
    /\ call' = [op |-> IF adjoint THEN "backward" ELSE "forward", shear |-> shearer._shear]
    /\ UNCHANGED <<target, use_mkl, mirror, filterVars, shiftVars, shearVars, propagatorVars>>

ShearForward ==
    /\ target = "FourierShear"
    /\ shearer # None
    /\ \E field \in ShearFields(shearer._input_grid) : ShearCall(field, FALSE)

ShearBackward ==
    /\ target = "FourierShear"
    /\ shearer # None
    /\ \E field \in ShearFields(shearer._input_grid) : ShearCall(field, TRUE)

ShearInit ==
    /\ target = "FourierShear"
    /\ use_mkl \in BOOLEAN
    /\ \E grid \in ShearGrids : \E s \in Shears : \E d \in {0, 1} :
          /\ shearer = FourierShearInit(grid, s, d)
          /\ call = [op |-> "none", input_grid |-> grid]
    /\ result = IF shearer = None THEN [NoResult EXCEPT !.kind = "ValueError"] ELSE NoResult
    /\ filter = None /\ shifter = None /\ rotation = None /\ propagator = None
    /\ mirror = None
    /\ origin = NoField /\ applied = <<>>
    /\ arg = NoField
    /\ argBefore = NoField

ShearNext == ShearAssign \/ ShearForward \/ ShearBackward

\* rotation.angle = a
RotationAssign ==
    /\ target = "FourierRotation"
    /\ rotation # None
    /\ \E a \in Angles :
          /\ rotation' = AngleSetter(rotation, a)
          /\ call' = [op |-> "set_angle", angle |-> a, assigned |-> TRUE]
    /\ UNCHANGED <<target, use_mkl, mirror, filterVars, shiftVars, shearer, propagatorVars,
                   arg, argBefore, result>>

RotationCall(field, adjoint) ==
    /\ target = "FourierRotation"
    /\ \E r \in {RotationOperation(rotation, field, adjoint, use_mkl)} :
           /\ arg' = r.arg
           /\ result' = r.result
    /\ argBefore' = field
    /\ call' = [op |-> IF adjoint THEN "backward" ELSE "forward", angle |-> call.angle,
                assigned |-> call.assigned]
    /\ UNCHANGED <<target, use_mkl, mirror, filterVars, shiftVars, shearVars, propagatorVars>>

RotationForward ==
    /\ target = "FourierRotation"
    /\ rotation # None
    /\ \E field \in ShearFields(rotation._input_grid) : RotationCall(field, FALSE)

RotationBackward ==
    /\ target = "FourierRotation"
    /\ rotation # None
    /\ \E field \in ShearFields(rotation._input_grid) : RotationCall(field, TRUE)

RotationInit ==
    /\ target = "FourierRotation"
    /\ use_mkl \in BOOLEAN
    /\ \E grid \in ShearGrids : \E a \in Angles :
          /\ rotation = FourierRotationInit(grid, a)
          /\ call = [op |-> "none", input_grid |-> grid, angle |-> a, assigned |-> FALSE]
    /\ result = IF rotation = None THEN [NoResult EXCEPT !.kind = "ValueError"] ELSE NoResult
    /\ filter = None /\ shifter = None /\ shearer = None /\ propagator = None
    /\ mirror = None
    /\ origin = NoField /\ applied = <<>>
    /\ arg = NoField
    /\ argBefore = NoField

RotationNext == RotationAssign \/ RotationForward \/ RotationBackward

SpecShear == (ShearInit \/ RotationInit) /\ [][ShearNext \/ RotationNext]_vars

(***************************************************************************)
(* AngularSpectrumPropagator: the client's calls                           *)
(***************************************************************************)
NumWavelengths == 2

MaxDistance == 2

Wavelengths == 1..NumWavelengths

\* Propagation distances: the unit distance, and the largest one forwards and
\* backwards.
Distances == {-MaxDistance, 1, MaxDistance}

Oversamplings == {1, 2}

RefractiveIndices == {1, 2}

\* A grid of 2 x 1 samples with spacing 1 along x and 2 along y, as it is, not
\* regular, and not Cartesian.
PropagatorGrids ==
    LET grid == [dims |-> <<2, 1>>, delta |-> <<1, 2>>, is_regular |-> TRUE,
                 cartesian |-> TRUE, zero |-> <<-1, 0>>]
    IN  {grid, [grid EXCEPT !.is_regular = FALSE], [grid EXCEPT !.cartesian = FALSE]}

\* The wavefronts a client propagates: the scalar complex field of samples
\* 1 + 2j, 3 - j on the regular Cartesian grid at each wavelength, and on the
\* other grids (which make_instance rejects before it reads the wavelength) at
\* wavelength 1.
Wavefronts ==
    LET u == [shape |-> <<2>>, data |-> (<<0>> :> <<1, 2>>) @@ (<<1>> :> <<3, -1>>)]
    IN  UNION {{[electric_field |-> [dtype |-> "complex128", grid |-> grid, data |-> u],
                 wavelength |-> wavelength, input_stokes_vector |-> None] :
                    wavelength \in IF grid.is_regular /\ grid.cartesian
                                   THEN Wavelengths ELSE {1}} :
               grid \in PropagatorGrids}

\* Every cached filter now predates a reassignment.
MarkStale(asp) == [asp EXCEPT !.cache = {[e EXCEPT !.stale = TRUE] : e \in @}]

\* What a reassignment records: whether any reassignment so far found instances
\* in the cache.
Reassigned(name) ==
    [op |-> name, dropped |-> call.dropped \/ propagator.cache # {},
     constructed_with |-> call.constructed_with]

PropagatorSetDistance ==
    /\ target = "AngularSpectrumPropagator"
    /\ \E d \in Distances : propagator' = DistanceSetter(MarkStale(propagator), d)
    /\ call' = Reassigned("set_distance")
    /\ UNCHANGED <<target, use_mkl, mirror, filterVars, shiftVars, shearVars,
                   arg, argBefore, result>>

PropagatorSetNumOversampling ==
    /\ target = "AngularSpectrumPropagator"
    /\ \E n \in Oversamplings : propagator' = NumOversamplingSetter(MarkStale(propagator), n)
    /\ call' = Reassigned("set_num_oversampling")
    /\ UNCHANGED <<target, use_mkl, mirror, filterVars, shiftVars, shearVars,
                   arg, argBefore, result>>

PropagatorSetRefractiveIndex ==
    /\ target = "AngularSpectrumPropagator"
    /\ \E n \in RefractiveIndices :
          propagator' = RefractiveIndexSetter(MarkStale(propagator), n)
    /\ call' = Reassigned("set_refractive_index")
    /\ UNCHANGED <<target, use_mkl, mirror, filterVars, shiftVars, shearVars,
                   arg, argBefore, result>>

PropagatorCall(wavefront, adjoint) ==
    /\ target = "AngularSpectrumPropagator"
    /\ \E r \in {PropagatorOperation(propagator, wavefront, adjoint, use_mkl)} :
           /\ propagator' = r.asp
           /\ result' = r.result
           /\ call' = [op |-> IF adjoint THEN "backward" ELSE "forward",
                       key |-> CacheKey(wavefront),
                       cache_before |-> propagator.cache,
                       built |-> r.built,
                       used |-> r.used,
                       dropped |-> call.dropped,
                       constructed_with |-> call.constructed_with]
    /\ arg' = wavefront
    /\ argBefore' = wavefront
    /\ UNCHANGED <<target, use_mkl, mirror, filterVars, shiftVars, shearVars>>

PropagatorForward ==
    /\ target = "AngularSpectrumPropagator"
    /\ \E wavefront \in Wavefronts : PropagatorCall(wavefront, FALSE)

PropagatorBackward ==
    /\ target = "AngularSpectrumPropagator"
    /\ \E wavefront \in Wavefronts : PropagatorCall(wavefront, TRUE)

PropagatorInit ==
    /\ target = "AngularSpectrumPropagator"
    /\ use_mkl \in BOOLEAN
    /\ \E grid \in PropagatorGrids, d \in Distances, n \in Oversamplings,
          r \in RefractiveIndices :
          /\ propagator = AngularSpectrumPropagatorInit(grid, d, n, r)
          /\ call = [op |-> "none", dropped |-> FALSE, constructed_with |-> grid]
    /\ filter = None /\ shifter = None /\ shearer = None /\ rotation = None
    /\ mirror = None
    /\ origin = NoField /\ applied = <<>>
    /\ arg = NoField
    /\ argBefore = NoField
    /\ result = NoResult

PropagatorNext ==
    \/ PropagatorSetDistance
    \/ PropagatorSetNumOversampling
    \/ PropagatorSetRefractiveIndex
    \/ PropagatorForward
    \/ PropagatorBackward

SpecPropagator == PropagatorInit /\ [][PropagatorNext]_vars

(***************************************************************************)
(* DeformableMirror: the client's calls                                    *)
(***************************************************************************)
\* The largest actuator value the client, or random(), sets; the smallest is 0.
MaxStroke == 1

\* Mode bases on a grid of two points: two of two modes and one of one mode.
ModeBases == {<<<<1, 0>>, <<0, 1>>>>, <<<<1, 1>>, <<0, 2>>>>, <<<<1, 2>>>>}

\* mirror.actuators = a: the setter stores whatever array it is given, here one
\* with a value per mode of any of the bases, the present one or another.
MirrorSetActuators ==
    /\ target = "DeformableMirror"
    /\ \E basis \in ModeBases : \E a \in [1..Len(basis) -> (0..MaxStroke)] :
          mirror' = [mirror EXCEPT !._actuators = a]
    /\ call' = [op |-> "set_actuators", hit |-> FALSE]
    /\ result' = NoResult
    /\ UNCHANGED <<target, use_mkl, filterVars, shiftVars, shearVars, propagatorVars,
                   arg, argBefore>>

\* mirror.actuators[m] = v: the array _actuators refers to is changed in place.
MirrorModifyActuators ==
    /\ target = "DeformableMirror"
    /\ \E m \in 1..Len(mirror._actuators), v \in (0..MaxStroke) :
          mirror' = [mirror EXCEPT !._actuators[m] = v]
    /\ call' = [op |-> "modify_actuators", hit |-> FALSE]
    /\ result' = NoResult
    /\ UNCHANGED <<target, use_mkl, filterVars, shiftVars, shearVars, propagatorVars,
                   arg, argBefore>>

\* random(rms): one new value per present actuator.
MirrorRandom ==
    /\ target = "DeformableMirror"
    /\ \E a \in [1..Len(mirror._actuators) -> (0..MaxStroke)] :
          mirror' = [mirror EXCEPT !._actuators = a]
    /\ call' = [op |-> "random", hit |-> FALSE]
    /\ result' = NoResult
    /\ UNCHANGED <<target, use_mkl, filterVars, shiftVars, shearVars, propagatorVars,
                   arg, argBefore>>

\* flatten(): one zero per mode.
MirrorFlatten ==
    /\ target = "DeformableMirror"
    /\ mirror' = [mirror EXCEPT !._actuators =
                                    [m \in 1..Len(mirror._influence_functions) |-> 0]]
    /\ call' = [op |-> "flatten", hit |-> FALSE]
    /\ result' = NoResult
    /\ UNCHANGED <<target, use_mkl, filterVars, shiftVars, shearVars, propagatorVars,
                   arg, argBefore>>

\* mirror.influence_functions = basis
MirrorSetInfluenceFunctions ==
    /\ target = "DeformableMirror"
    /\ \E basis \in ModeBases : mirror' = InfluenceFunctionsSetter(mirror, basis)
    /\ call' = [op |-> "set_influence_functions", hit |-> FALSE]
    /\ result' = NoResult
    /\ UNCHANGED <<target, use_mkl, filterVars, shiftVars, shearVars, propagatorVars,
                   arg, argBefore>>

\* mirror.surface
MirrorSurface ==
    /\ target = "DeformableMirror"
    /\ \E r \in {Surface(mirror)} :
           /\ mirror' = r.dm
           /\ result' = r.result
           /\ call' = [op |-> "surface", hit |-> r.hit]
    /\ UNCHANGED <<target, use_mkl, filterVars, shiftVars, shearVars, propagatorVars,
                   arg, argBefore>>

\* mirror.opd: twice the surface.
MirrorOpd ==
    /\ target = "DeformableMirror"
    /\ \E r \in {Surface(mirror)} :
           /\ mirror' = r.dm
           /\ result' = IF r.result.kind # "Field" THEN r.result
                         ELSE [kind |-> "Field",
                               value |-> Some([x \in 1..Len(r.result.value[1]) |->
                                                  2 * r.result.value[1][x]]),
                               buffer |-> "fresh"]
           /\ call' = [op |-> "opd", hit |-> r.hit]
    /\ UNCHANGED <<target, use_mkl, filterVars, shiftVars, shearVars, propagatorVars,
                   arg, argBefore>>

\* mirror.phase_for(wavelength): 2 * surface * 2 * pi / wavelength.
MirrorPhaseFor ==
    /\ target = "DeformableMirror"
    /\ \E wavelength \in Wavelengths : \E r \in {Surface(mirror)} :
           /\ mirror' = r.dm
           /\ result' = IF r.result.kind # "Field" THEN r.result
                         ELSE [kind |-> "Field",
                               value |-> Some([x \in 1..Len(r.result.value[1]) |->
                                                  <<4 * r.result.value[1][x], wavelength>>]),
                               buffer |-> "fresh"]
           /\ call' = [op |-> "phase_for", hit |-> r.hit]
    /\ UNCHANGED <<target, use_mkl, filterVars, shiftVars, shearVars, propagatorVars,
                   arg, argBefore>>

\* mirror.forward(wavefront), for a wavefront on the regular grid: a copy of the
\* wavefront whose electric field is multiplied by exp(2j * wavenumber * surface),
\* wavenumber = 2 * pi / wavelength.
MirrorForward ==
    /\ target = "DeformableMirror"
    /\ \E wavefront \in {w \in Wavefronts : w.electric_field.grid.is_regular
                                              /\ w.electric_field.grid.cartesian} :
       \E r \in {Surface(mirror)} :
           /\ mirror' = r.dm
           /\ result' =
                  IF r.result.kind # "Field" THEN r.result
                  ELSE [kind |-> "Wavefront",
                        value |-> Some([wavefront EXCEPT !.electric_field.data.data =
                                     [idx \in DOMAIN @ |->
                                         [sample |-> @[idx],
                                          phase |-> <<4 * r.result.value[1][idx[1] + 1],
                                                      wavefront.wavelength>>]]]),
                        buffer |-> "fresh"]
           /\ call' = [op |-> "forward", hit |-> r.hit]
           /\ arg' = wavefront
           /\ argBefore' = wavefront
    /\ UNCHANGED <<target, use_mkl, filterVars, shiftVars, shearVars, propagatorVars>>

\* mirror.backward(wavefront): as forward, with exp(-2j * wavenumber * surface).
MirrorBackward ==
    /\ target = "DeformableMirror"
    /\ \E wavefront \in {w \in Wavefronts : w.electric_field.grid.is_regular
                                              /\ w.electric_field.grid.cartesian} :
       \E r \in {Surface(mirror)} :
           /\ mirror' = r.dm
           /\ result' =
                  IF r.result.kind # "Field" THEN r.result
                  ELSE [kind |-> "Wavefront",
                        value |-> Some([wavefront EXCEPT !.electric_field.data.data =
                                     [idx \in DOMAIN @ |->
                                         [sample |-> @[idx],
                                          phase |-> <<-4 * r.result.value[1][idx[1] + 1],
                                                      wavefront.wavelength>>]]]),
                        buffer |-> "fresh"]
           /\ call' = [op |-> "backward", hit |-> r.hit]
           /\ arg' = wavefront
           /\ argBefore' = wavefront
    /\ UNCHANGED <<target, use_mkl, filterVars, shiftVars, shearVars, propagatorVars>>

MirrorInit ==
    /\ target = "DeformableMirror"
    /\ use_mkl = FALSE
    /\ \E basis \in ModeBases : mirror = DeformableMirrorInit(basis)
    /\ filter = None /\ shifter = None /\ shearer = None /\ rotation = None
    /\ propagator = None
    /\ origin = NoField /\ applied = <<>>
    /\ arg = NoField
    /\ argBefore = NoField
    /\ result = NoResult
    /\ call = [op |-> "none", hit |-> FALSE]

MirrorNext ==
    \/ MirrorSetActuators
    \/ MirrorModifyActuators
    \/ MirrorRandom
    \/ MirrorFlatten
    \/ MirrorSetInfluenceFunctions
    \/ MirrorSurface
    \/ MirrorOpd
    \/ MirrorPhaseFor
    \/ MirrorForward
    \/ MirrorBackward

SpecMirror == MirrorInit /\ [][MirrorNext]_vars

(***************************************************************************)
(* Any one operator and its client                                         *)
(***************************************************************************)
Init == FilterInit \/ ShiftInit \/ ShearInit \/ RotationInit \/ PropagatorInit \/ MirrorInit

Next == FilterNext \/ ShiftNext \/ ShearNext \/ RotationNext \/ PropagatorNext \/ MirrorNext

Spec == Init /\ [][Next]_vars

(***************************************************************************)
(* FourierShift: properties                                                *)
(***************************************************************************)
IsZeroShift(shift) == \A d \in 1..Len(shift) : shift[d] = 0

\* C8: every FourierShift call transforms exactly the spatial axes whose shift
\* component is non-zero: no zero-shift spatial axis, no tensor axis, and every
\* non-zero-shift spatial axis.  Grid axis d is tuple position ndim + 1 - d of an
\* array of ndim axes.
C8_FftOverActiveSpatialAxes ==
    (target = "FourierShift" /\ call.op # "none") =>
        call.transformed =
            {call.ndim + 1 - d : d \in {e \in 1..Len(call.shift) : call.shift[e] # 0}}

\* C9: the operator stores no filter and transforms nothing exactly when every
\* component of the last assigned shift is zero, and then a call returns its input
\* cast to complex; a non-zero shift always has the filter built for it.
C9_NoOpIffZeroShift ==
    target = "FourierShift" =>
        /\ (shifter._shift_filter = None) <=> IsZeroShift(shifter._shift)
        /\ (shifter._ft_axes = <<>>) <=> IsZeroShift(shifter._shift)
        /\ shifter._shift_filter =
               FourierShiftInit(shifter.input_grid, shifter._shift)._shift_filter
        /\ call.op # "none" =>
              /\ (call.transformed = {}) <=> IsZeroShift(call.shift)
              /\ IsZeroShift(call.shift) =>
                    /\ result.kind = "Field"
                    /\ result.value[1].dtype = "complex128"
                    /\ result.value[1].data = AsType(arg.data, "complex128")

\* A call was made with a non-zero shift, and an all-zero shift assigned after it
\* has discarded the filter.
C9_Witness ==
    /\ target = "FourierShift"
    /\ call.op = "forward"
    /\ ~IsZeroShift(call.shift)
    /\ IsZeroShift(shifter._shift)
    /\ shifter._shift_filter = None

\* C10: two forward calls with shifts s1 and s2 give what one forward call with
\* shift s1 + s2 gives, and that is the field moved by its own shift component
\* along every spatial axis.
C10_ShiftComposition ==
    LET \* The field moved by shift[d] grid steps along every grid axis d, circularly.
        Translate(field, shift) ==
            LET arr == Shaped(field)
                n == Len(arr.shape)
                from(idx) == [p \in 1..n |->
                                 IF n + 1 - p <= Len(shift)
                                 THEN (idx[p] - shift[n + 1 - p]) % arr.shape[p]
                                 ELSE idx[p]]
            IN  FlatField([shape |-> arr.shape,
                           data |-> [idx \in Indices(arr.shape) |->
                                        CastSample(arr.data[from(idx)], "complex128")]],
                          field.grid, "complex128")
    IN  (target = "FourierShift" /\ Len(applied) = 2) =>
            /\ result.value =
                   ShiftOperation(FourierShiftInit(origin.grid,
                                                   AddVec(applied[1], applied[2])),
                                  origin, FALSE, use_mkl).result.value
            /\ result.value = Some(Translate(origin, AddVec(applied[1], applied[2])))

(***************************************************************************)
(* AngularSpectrumPropagator: properties                                   *)
(***************************************************************************)
IsCall == call.op \in {"forward", "backward"}

\* The evaluated transfer function of a filter built and evaluated for key under
\* the propagator's present parameters.
PresentTransferFunction(key) ==
    [profile |-> IF UsesImpulseResponse(propagator, key.input_grid, key.wavelength)
                 THEN "impulse_response" ELSE "native",
     k |-> [wavelength |-> key.wavelength,
            refractive_index |-> propagator._refractive_index],
     distance |-> propagator._distance,
     num_oversampling |-> propagator._num_oversampling]

\* C1: reassigning distance, num_oversampling or refractive_index leaves no cached
\* instance, and a forward/backward call never uses a filter built before a
\* reassignment: the transfer function it applies was built and evaluated from the
\* parameters in force at the call.
C1_ReassignmentClearsCache ==
    target = "AngularSpectrumPropagator" =>
        /\ call.op \in {"set_distance", "set_num_oversampling", "set_refractive_index"} =>
              propagator.cache = {}
        /\ (IsCall /\ call.used # None) =>
              /\ ~call.used[1].stale
              /\ call.used[1].fourier_filter._transfer_function[1].arr =
                     PresentTransferFunction(call.key)
              /\ result.value[1].electric_field.data.transfer_function =
                     PresentTransferFunction(call.key)

\* A forward call made after a reassignment found cached instances had to build
\* its own.
C1_Witness ==
    /\ target = "AngularSpectrumPropagator"
    /\ call.op = "forward"
    /\ call.dropped
    /\ call.built

\* C2: a call whose key is cached reuses the cached filter (the same filter but
\* for the contents of internal_array, which every call writes) and builds
\* nothing; a call with a new key builds a filter for that key; either way every
\* instance cached for another key stays in the cache as it was.
C2_CacheReuse ==
    (target = "AngularSpectrumPropagator" /\ IsCall /\ call.used # None) =>
        /\ call.built <=> (call.key \notin {e.key : e \in call.cache_before})
        /\ ~call.built =>
              \E e \in call.cache_before :
                  /\ e.key = call.key
                  /\ [call.used[1].fourier_filter EXCEPT !.internal_array = None] =
                         [e.fourier_filter EXCEPT !.internal_array = None]
        /\ call.built =>
              /\ call.used[1].fourier_filter.input_grid = call.key.input_grid
              /\ call.used[1].fourier_filter.transfer_function.k.wavelength =
                     call.key.wavelength
              /\ ~call.used[1].stale
        /\ call.used[1] \in propagator.cache
        /\ \A e \in call.cache_before : e.key # call.key => e \in propagator.cache
        /\ \A e1, e2 \in propagator.cache : e1.key = e2.key => e1 = e2

\* A call reused its instance while the instance of the other wavelength was cached.
C2_Witness ==
    /\ target = "AngularSpectrumPropagator"
    /\ IsCall
    /\ call.used # None
    /\ ~call.built
    /\ \E e \in propagator.cache : e.key.wavelength # call.key.wavelength

(***************************************************************************)
(* FourierFilter: properties                                               *)
(***************************************************************************)
\* C3: after a forward/backward call the cached transfer function is the nominal
\* transfer function of that call, shifted and cast to the field's dtype, whatever
\* was cached before the call.
C3_ReassignmentInvalidates ==
    (target = "FourierFilter" /\ IsCall) =>
        filter._transfer_function[1].arr =
            AsType(ifftshift(TransferFunctionShaped(call.transfer_function,
                                                    filter.internal_shape),
                             GridNdim(filter.input_grid)),
                   argBefore.dtype)

\* C4: a call reallocates the scratch buffer exactly when none matching the field
\* exists, and after the call the buffer has the field's dtype and tensor shape.
C4_BufferMatchesField ==
    (target = "FourierFilter" /\ IsCall) =>
        /\ call.reallocated <=> ~call.matched
        /\ filter.internal_array[1].dtype = argBefore.dtype
        /\ filter.internal_array[1].arr.shape = TensorShape(argBefore) \o filter.internal_shape

\* C7: whatever the filter did before, for complex fields u and v of one tensor
\* shape forward(u) and backward(v) are fields of that shape and
\* <forward(u), v> = <u, backward(v)>.
C7_BackwardIsAdjoint ==
    target = "FourierFilter" =>
        \A u, v \in {f \in FilterFields(filter) : IsComplexDtype(f.dtype)} :
            TensorShape(u) = TensorShape(v) =>
                LET fw == FilterOperation(filter, u, FALSE, use_mkl)
                    bw == FilterOperation(fw.ff, v, TRUE, use_mkl)
                    \* <a, b>: the sum over the samples of conj(a) * b.
                    InnerProduct(a, b) ==
                        LET n == Product(a.shape)
                            S[i \in 0..n] ==
                                IF i = 0 THEN CZero
                                ELSE CAdd(S[i - 1],
                                          CMul(CConj(a.data[Unravel(i - 1, a.shape)]),
                                               b.data[Unravel(i - 1, a.shape)]))
                        IN  S[n]
                IN  /\ fw.result.kind = "Field"
                    /\ bw.result.kind = "Field"
                    /\ fw.result.value[1].data.shape = v.data.shape
                    /\ bw.result.value[1].data.shape = u.data.shape
                    /\ InnerProduct(fw.result.value[1].data, v.data) =
                           InnerProduct(u.data, bw.result.value[1].data)

(***************************************************************************)
(* Every operator: properties                                              *)
(***************************************************************************)
\* C5: a forward or backward call that returns, returns one value of the type of
\* its argument: a Field for a Field, a Wavefront for a Wavefront.
C5_ReturnsArgumentType ==
    (IsCall /\ result.kind # "ValueError") =>
        result.kind = (IF "electric_field" \in DOMAIN argBefore THEN "Wavefront" ELSE "Field")

\* C6: after a forward or backward call of FourierFilter, FourierShift, FourierShear
\* or FourierRotation the input field is what it was before the call, and the
\* result does not live in the input's buffer.
C6_InputNotMutated ==
    (target \in {"FourierFilter", "FourierShift", "FourierShear", "FourierRotation"} /\ IsCall)
        => /\ arg = argBefore
           /\ result.buffer # "arg"

\* A filter that does not pad transformed a complex field under mkl_fft: the array
\* it transformed was the input's own.
C6_Witness ==
    /\ target = "FourierFilter"
    /\ use_mkl
    /\ filter.cutout = None
    /\ call.op = "forward"
    /\ IsComplexDtype(argBefore.dtype)
    /\ result.kind = "Field"

(***************************************************************************)
(* AngularSpectrumPropagator: grids and the choice of derivation           *)
(***************************************************************************)
\* C11 as stated: a propagator constructed with a grid that is not regular or not
\* Cartesian does not exist: the construction failed with ValueError.
C11_ConstructionRejectsGrid ==
    (/\ target = "AngularSpectrumPropagator"
     /\ ~call.constructed_with.is_regular \/ ~call.constructed_with.cartesian) =>
        propagator = None

\* C11 as amended: construction succeeds whatever grid it is given; a forward or
\* backward call raises ValueError exactly when the grid of its wavefront is not
\* regular or not Cartesian, and then the cache is as it was; no instance is ever
\* cached for such a grid.
C11_CallRejectsGrid ==
    target = "AngularSpectrumPropagator" =>
        /\ propagator # None
        /\ \A e \in propagator.cache :
              e.key.input_grid.is_regular /\ e.key.input_grid.cartesian
        /\ IsCall =>
              /\ (result.kind = "ValueError") <=>
                     (~call.key.input_grid.is_regular \/ ~call.key.input_grid.cartesian)
              /\ (result.kind # "ValueError") <=> (result.kind = "Wavefront")
              /\ (result.kind = "ValueError") => propagator.cache = call.cache_before

\* A propagator constructed with a grid that is not Cartesian has raised ValueError
\* in a forward call, with an instance for another wavefront in its cache.
C11_Witness ==
    /\ target = "AngularSpectrumPropagator"
    /\ ~call.constructed_with.cartesian
    /\ call.op = "forward"
    /\ result.kind = "ValueError"
    /\ propagator.cache # {}

\* C13 as stated: the transfer function a call applies is the transform of the
\* impulse response exactly when a grid spacing is larger than
\* wavelength * distance / max(grid extent).
C13_ImpulseResponseWhenCoarse ==
    (target = "AngularSpectrumPropagator" /\ IsCall /\ call.used # None) =>
        ((call.used[1].fourier_filter.transfer_function.profile = "impulse_response") <=>
            \E p \in 1..2 :
                call.key.input_grid.delta[p] * LMax(call.key.input_grid)
                    > call.key.wavelength * propagator._distance)

\* C13 as amended: the transfer function a call applies is the transform of the
\* impulse response exactly when a grid spacing is smaller than
\* wavelength * distance / max(grid extent) for the distance in force, and is
\* written directly in frequency space otherwise.
C13_ImpulseResponseWhenFine ==
    (target = "AngularSpectrumPropagator" /\ IsCall /\ call.used # None) =>
        /\ call.used[1].fourier_filter.transfer_function.profile \in {"impulse_response", "native"}
        /\ (call.used[1].fourier_filter.transfer_function.profile = "impulse_response") <=>
              \E p \in 1..2 :
                  call.key.wavelength * propagator._distance
                      > call.key.input_grid.delta[p] * LMax(call.key.input_grid)

\* A call applied the transform of the impulse response on a grid of which only
\* the finer spacing is below the criterion.
C13_Witness ==
    /\ target = "AngularSpectrumPropagator"
    /\ IsCall
    /\ call.used # None
    /\ call.built
    /\ call.used[1].fourier_filter.transfer_function.profile = "impulse_response"
    /\ \E p \in 1..2 :
          call.key.wavelength * propagator._distance
              <= call.key.input_grid.delta[p] * LMax(call.key.input_grid)

\* C16: the derivation a call applies is the one a propagator with the opposite
\* distance selects on the same grid and wavelength.
C16_BranchIgnoresSign ==
    (target = "AngularSpectrumPropagator" /\ IsCall /\ call.used # None) =>
        call.used[1].fourier_filter.transfer_function.profile =
            MakeInstance([propagator EXCEPT !._distance = -@], call.key.input_grid,
                         call.key.wavelength)[1].fourier_filter.transfer_function.profile

(***************************************************************************)
(* FourierShear and FourierRotation: properties                            *)
(***************************************************************************)
\* C12: constructing a FourierShear or a FourierRotation raises ValueError, and
\* gives no operator, exactly when the grid is not regular or not of two
\* dimensions; on a regular 2-D grid it gives an operator on that grid whose shear
\* filters are computed, one sample per grid point.
C12_ConstructionRequiresRegular2D ==
    /\ target = "FourierShear" =>
          IF shearer = None
          THEN /\ result.kind = "ValueError"
               /\ ~call.input_grid.is_regular \/ Len(call.input_grid.dims) # 2
          ELSE /\ shearer._input_grid.is_regular
               /\ Len(shearer._input_grid.dims) = 2
               /\ shearer._filter.shape = Reverse(shearer._input_grid.dims)
               /\ call.op = "none" =>
                     (result.kind = "none" /\ call.input_grid = shearer._input_grid)
    /\ target = "FourierRotation" =>
          IF rotation = None
          THEN /\ result.kind = "ValueError"
               /\ ~call.input_grid.is_regular \/ Len(call.input_grid.dims) # 2
          ELSE /\ rotation._input_grid.is_regular
               /\ Len(rotation._input_grid.dims) = 2
               /\ rotation._shear_x._filter.shape = Reverse(rotation._input_grid.dims)
               /\ rotation._shear_y._filter.shape = Reverse(rotation._input_grid.dims)
               /\ call.op = "none" =>
                     (result.kind = "none" /\ call.input_grid = rotation._input_grid)

\* The construction of a FourierRotation on a regular grid of three dimensions
\* has raised ValueError.
C12_Witness ==
    /\ target = "FourierRotation"
    /\ rotation = None
    /\ result.kind = "ValueError"
    /\ call.input_grid.is_regular
    /\ Len(call.input_grid.dims) = 3

\* C15: the x-shear of a FourierRotation has coefficient tan(angle / 2) and the
\* y-shear -sin(angle) for the angle last assigned (or given at construction),
\* with the filters of those coefficients, and the three stages of a call are the
\* x-shear, the y-shear of its result, and the same x-shear of that result.
C15_ShearsFollowAngle ==
    (target = "FourierRotation" /\ rotation # None) =>
        /\ rotation._angle = call.angle
        /\ rotation._shear_x._shear = TanHalfAngle(call.angle)
        /\ rotation._shear_y._shear = -SinAngle(call.angle)
        /\ rotation._shear_x._shear_dim = 0
        /\ rotation._shear_y._shear_dim = 1
        /\ rotation._shear_x._filter =
               ShearFilter(rotation._input_grid, TanHalfAngle(call.angle), 0)
        /\ rotation._shear_y._filter =
               ShearFilter(rotation._input_grid, -SinAngle(call.angle), 1)
        /\ IsCall =>
              /\ result.value[1] =
                     ShearOperation(rotation._shear_x, argBefore, call.op = "backward",
                                    use_mkl).result.value[1]
              /\ result.value[2] =
                     ShearOperation(rotation._shear_y, result.value[1], call.op = "backward",
                                    use_mkl).result.value[1]
              /\ result.value[3] =
                     ShearOperation(rotation._shear_x, result.value[2], call.op = "backward",
                                    use_mkl).result.value[1]

\* A rotation was called after its angle was reassigned, to a quarter turn
\* backwards.
C15_Witness ==
    /\ target = "FourierRotation"
    /\ rotation # None
    /\ IsCall
    /\ call.assigned
    /\ call.angle = -1
    /\ rotation._shear_y._shear = 1
    /\ result.value[3] # result.value[1]

(***************************************************************************)
(* FourierFilter: invocations of a generator transfer function             *)
(***************************************************************************)
\* C14 as stated: a call invokes the generator only for a dtype it has not been
\* invoked for before.
C14_GeneratorOncePerDtype ==
    (target = "FourierFilter" /\ IsCall /\ call.invoked) =>
        argBefore.dtype \notin call.generated_before

\* C14 as amended: on a filter whose transfer function is a generator, a call
\* invokes the generator exactly when it is the first call on the filter or the
\* previous call's field had another dtype.
C14_GeneratorOnDtypeChange ==
    (target = "FourierFilter" /\ IsCall /\ call.transfer_function.callable) =>
        /\ call.invoked <=> (call.previous = None \/ call.previous[1] # argBefore.dtype)
        /\ filter._transfer_function # None
        /\ filter._transfer_function[1].dtype = argBefore.dtype

\* A call with the dtype of the previous call, which the generator had been
\* invoked for, did not invoke it.
C14_Witness ==
    /\ target = "FourierFilter"
    /\ IsCall
    /\ call.transfer_function.callable
    /\ ~call.invoked
    /\ call.previous = Some(argBefore.dtype)
    /\ argBefore.dtype \in call.generated_before

(***************************************************************************)
(* DeformableMirror: properties                                            *)
(***************************************************************************)
\* C17 as stated: a surface that is cached is the linear combination of the
\* present influence functions with the actuators it was computed for, and a read
\* of surface gives what an uncached computation gives: the linear combination
\* of the present influence functions with the present actuators (ValueError
\* when their numbers differ).
C17_SurfaceNeverStale ==
    target = "DeformableMirror" =>
        /\ mirror._actuators_for_cached_surface # None =>
              /\ Len(mirror._actuators_for_cached_surface[1]) = Len(mirror._influence_functions)
              /\ mirror._surface =
                     LinearCombination(mirror._influence_functions,
                                       mirror._actuators_for_cached_surface[1])
        /\ call.op = "surface" =>
              IF Len(mirror._actuators) = Len(mirror._influence_functions)
              THEN /\ result.kind = "Field"
                   /\ result.value =
                          Some(LinearCombination(mirror._influence_functions,
                                                 mirror._actuators))
              ELSE result.kind = "ValueError"

====
